---------------------------- MODULE Spec2Model ----------------------------
(***************************************************************************)
(* Model of the multicam_common Python package: the CommandMessage and     *)
(* response dataclasses with their JSON codecs (commands.py), the          *)
(* DeviceStatus classifier (status.py) and SUCCESS_STATUSES (constants.py).*)
(*                                                                         *)
(* Python values are tagged records [type |-> ..., v |-> ...]; JSON text   *)
(* is a tree of tagged records [json |-> ..., v |-> ...].  json.dumps and  *)
(* json.loads translate between the two.  Status strings, which the        *)
(* classifier lower-cases, are sequences of one-character strings; every   *)
(* other string is opaque.                                                 *)
(***************************************************************************)
EXTENDS Integers, Sequences, FiniteSets, TLC

VARIABLES call, obj, wire, result

vars == <<call, obj, wire, result>>

(***************************************************************************)
(* Bounds of the model.                                                    *)
(***************************************************************************)
MaxTimestamp == 2
MaxClock == 2
MaxQueue == 2
MaxFiles == 2
MaxOmitted == 1
MaxJunkLen == 2

(***************************************************************************)
(* Python values.                                                          *)
(***************************************************************************)
None == [type |-> "NoneType"]
PyStr(s) == [type |-> "str", v |-> s]
PyFloat(n) == [type |-> "float", v |-> n]
PyInt(n) == [type |-> "int", v |-> n]
PyList(s) == [type |-> "list", v |-> s]
PyDict(f) == [type |-> "dict", v |-> f]

\* bool(v): the truth value Python's `or` tests.
Truthy(v) ==
    CASE v.type = "NoneType" -> FALSE
      [] v.type \in {"float", "int"} -> v.v # 0
      [] v.type = "str" -> v.v # ""
      [] v.type = "list" -> Len(v.v) > 0
      [] OTHER -> TRUE

\* a or b
Or(a, b) == IF Truthy(a) THEN a ELSE b

\* The outcome of a call: a returned value or a raised exception.
Return(v) == [ok |-> TRUE, value |-> v]
Raise(e) == [ok |-> FALSE, error |-> e]

(***************************************************************************)
(* JSON text, and json.dumps / json.loads.                                 *)
(***************************************************************************)
JNull == [json |-> "null"]
JString(s) == [json |-> "string", v |-> s]
JNumber(n, frac) == [json |-> "number", v |-> n, frac |-> frac]
JArray(s) == [json |-> "array", v |-> s]
JObject(f) == [json |-> "object", v |-> f]

RECURSIVE json_dumps(_)
json_dumps(v) ==
    CASE v.type = "NoneType" -> JNull
      [] v.type = "str" -> JString(v.v)
      [] v.type = "CommandType" -> JString(v.v)
      [] v.type = "float" -> JNumber(v.v, TRUE)
      [] v.type = "int" -> JNumber(v.v, FALSE)
      [] v.type = "list" -> JArray([i \in DOMAIN v.v |-> json_dumps(v.v[i])])
      [] v.type = "dict" -> JObject([k \in DOMAIN v.v |-> json_dumps(v.v[k])])

RECURSIVE json_loads(_)
json_loads(j) ==
    CASE j.json = "null" -> None
      [] j.json = "string" -> PyStr(j.v)
      [] j.json = "number" -> IF j.frac THEN PyFloat(j.v) ELSE PyInt(j.v)
      [] j.json = "array" -> PyList([i \in DOMAIN j.v |-> json_loads(j.v[i])])
      [] j.json = "object" -> PyDict([k \in DOMAIN j.v |-> json_loads(j.v[k])])

\* data.get(key, default)
dict_get(data, key, default) ==
    IF key \in DOMAIN data.v THEN data.v[key] ELSE default

\* dataclasses.asdict(o): the fields of a dataclass instance as a dict.
asdict(o) == PyDict([k \in (DOMAIN o) \ {"class"} |-> o[k]])

(***************************************************************************)
(* status.py: DeviceStatus                                                 *)
(***************************************************************************)
DeviceStatus ==
    [READY |->
        <<"r", "e", "a", "d", "y">>,
     RECORDING |->
        <<"r", "e", "c", "o", "r", "d", "i", "n", "g">>,
     STOPPING |->
        <<"s", "t", "o", "p", "p", "i", "n", "g">>,
     ERROR |->
        <<"e", "r", "r", "o", "r">>,
     SCHEDULED_RECORDING_ACCEPTED |->
        <<"s", "c", "h", "e", "d", "u", "l", "e", "d", "_", "r", "e", "c", "o", "r", "d", "i", "n", "g", "_", "a", "c", "c", "e", "p", "t", "e", "d">>,
     RECORDING_STOPPED |->
        <<"r", "e", "c", "o", "r", "d", "i", "n", "g", "_", "s", "t", "o", "p", "p", "e", "d">>,
     COMMAND_RECEIVED |->
        <<"c", "o", "m", "m", "a", "n", "d", "_", "r", "e", "c", "e", "i", "v", "e", "d">>,
     TIME_NOT_SYNCHRONIZED |->
        <<"t", "i", "m", "e", "_", "n", "o", "t", "_", "s", "y", "n", "c", "h", "r", "o", "n", "i", "z", "e", "d">>,
     FILE_NOT_FOUND |->
        <<"f", "i", "l", "e", "_", "n", "o", "t", "_", "f", "o", "u", "n", "d">>,
     UPLOADING |->
        <<"u", "p", "l", "o", "a", "d", "i", "n", "g">>,
     UPLOAD_QUEUED |->
        <<"u", "p", "l", "o", "a", "d", "_", "q", "u", "e", "u", "e", "d">>,
     UPLOAD_COMPLETED |->
        <<"u", "p", "l", "o", "a", "d", "_", "c", "o", "m", "p", "l", "e", "t", "e", "d">>,
     UPLOAD_FAILED |->
        <<"u", "p", "l", "o", "a", "d", "_", "f", "a", "i", "l", "e", "d">>]

DeviceStatusValues == {DeviceStatus[n] : n \in DOMAIN DeviceStatus}

\* str.lower() on the ASCII letters.
UpperCase ==
    <<"A", "B", "C", "D", "E", "F", "G", "H", "I", "J", "K", "L", "M", "N", "O", "P", "Q", "R", "S", "T", "U", "V", "W", "X", "Y", "Z">>
LowerCase ==
    <<"a", "b", "c", "d", "e", "f", "g", "h", "i", "j", "k", "l", "m", "n", "o", "p", "q", "r", "s", "t", "u", "v", "w", "x", "y", "z">>

lower_char(c) ==
    IF \E i \in DOMAIN UpperCase : UpperCase[i] = c
    THEN LowerCase[CHOOSE i \in DOMAIN UpperCase : UpperCase[i] = c]
    ELSE c

lower(s) == [i \in DOMAIN s |-> lower_char(s[i])]

success_statuses ==
    {DeviceStatus.READY,
     DeviceStatus.RECORDING,
     DeviceStatus.SCHEDULED_RECORDING_ACCEPTED,
     DeviceStatus.COMMAND_RECEIVED,
     DeviceStatus.RECORDING_STOPPED,
     DeviceStatus.STOPPING,
     DeviceStatus.UPLOADING,
     DeviceStatus.UPLOAD_QUEUED,
     DeviceStatus.UPLOAD_COMPLETED}

\* is_success as it would be without the call of lower().
is_success_CaseSensitive(status) == status \in success_statuses

is_success(status) == lower(status) \in success_statuses

\* error_statuses as it would be with UPLOAD_FAILED forgotten.
error_statuses_NoUploadFailed ==
    {DeviceStatus.ERROR,
     DeviceStatus.TIME_NOT_SYNCHRONIZED,
     DeviceStatus.FILE_NOT_FOUND}

error_statuses ==
    {DeviceStatus.ERROR,
     DeviceStatus.TIME_NOT_SYNCHRONIZED,
     DeviceStatus.FILE_NOT_FOUND,
     DeviceStatus.UPLOAD_FAILED}

is_error(status) == lower(status) \in error_statuses

(***************************************************************************)
(* constants.py                                                            *)
(***************************************************************************)
SUCCESS_STATUSES ==
    {<<"r", "e", "a", "d", "y">>,
     <<"r", "e", "c", "o", "r", "d", "i", "n", "g">>,
     <<"s", "c", "h", "e", "d", "u", "l", "e", "d", "_", "r", "e", "c", "o", "r", "d", "i", "n", "g", "_", "a", "c", "c", "e", "p", "t", "e", "d">>,
     <<"c", "o", "m", "m", "a", "n", "d", "_", "r", "e", "c", "e", "i", "v", "e", "d">>,
     <<"r", "e", "c", "o", "r", "d", "i", "n", "g", "_", "s", "t", "o", "p", "p", "e", "d">>,
     <<"s", "t", "o", "p", "p", "i", "n", "g">>}

(***************************************************************************)
(* commands.py: CommandType                                                *)
(***************************************************************************)
CommandType ==
    [START_RECORDING |-> "START_RECORDING",
     STOP_RECORDING  |-> "STOP_RECORDING",
     DEVICE_STATUS   |-> "DEVICE_STATUS",
     GET_VIDEO       |-> "GET_VIDEO",
     HEARTBEAT       |-> "HEARTBEAT",
     LIST_FILES      |-> "LIST_FILES",
     UPLOAD_TO_CLOUD |-> "UPLOAD_TO_CLOUD"]

CommandTypeValues == {CommandType[n] : n \in DOMAIN CommandType}

\* A member of the enumeration, carrying its value.
Member(value) == [type |-> "CommandType", v |-> value]

\* The lookup as it would be if any string made a member.
CommandType_lookup_AnyString(value) ==
    IF value.type = "CommandType" THEN Return(value)
    ELSE IF value.type = "str" THEN Return(Member(value.v))
         ELSE Raise("ValueError")

\* CommandType(value): the member with that value, ValueError if there is none.

CommandType_lookup(value) ==
    IF value.type = "CommandType" THEN Return(value)
    ELSE IF value.type = "str" /\ value.v \in CommandTypeValues
         THEN Return(Member(value.v))
         ELSE Raise("ValueError")

(***************************************************************************)
(* commands.py: CommandMessage                                             *)
(***************************************************************************)
\* The dataclass constructor: it stores its arguments, nothing is validated.
CommandMessage(command, timestamp, deviceId, fileName, uploadUrl) ==
    [class |-> "CommandMessage", command |-> command, timestamp |-> timestamp,
     deviceId |-> deviceId, fileName |-> fileName, uploadUrl |-> uploadUrl]

\* to_json as it would be with the uploadUrl entry forgotten.
CommandMessage_to_json_NoUploadUrl(self) ==
    json_dumps(PyDict(
        [command   |-> IF self.command.type = "CommandType"
                       THEN PyStr(self.command.v) ELSE self.command,
         timestamp |-> self.timestamp,
         deviceId  |-> self.deviceId,
         fileName  |-> self.fileName]))

CommandMessage_to_json(self) ==
    json_dumps(PyDict(
        [command   |-> IF self.command.type = "CommandType"
                       THEN PyStr(self.command.v) ELSE self.command,
         timestamp |-> self.timestamp,
         deviceId  |-> self.deviceId,
         fileName  |-> self.fileName,
         uploadUrl |-> self.uploadUrl]))

\* from_json as it would be with data.get('timestamp', 0.0).
CommandMessage_from_json_DefaultTimestamp(json_str) ==
    LET data == json_loads(json_str) IN
    IF "command" \notin DOMAIN data.v THEN Raise("KeyError")
    ELSE LET command == CommandType_lookup(data.v["command"]) IN
         IF ~command.ok THEN command
         ELSE Return(CommandMessage(
                  command.value,
                  dict_get(data, "timestamp", PyFloat(0)),
                  dict_get(data, "deviceId", PyStr("controller")),
                  dict_get(data, "fileName", None),
                  dict_get(data, "uploadUrl", None)))

CommandMessage_from_json(json_str) ==
    LET data == json_loads(json_str) IN
    IF "command" \notin DOMAIN data.v THEN Raise("KeyError")
    ELSE LET command == CommandType_lookup(data.v["command"]) IN
         IF ~command.ok THEN command
         ELSE IF "timestamp" \notin DOMAIN data.v THEN Raise("KeyError")
         ELSE Return(CommandMessage(
                  command.value,
                  data.v["timestamp"],
                  dict_get(data, "deviceId", PyStr("controller")),
                  dict_get(data, "fileName", None),
                  dict_get(data, "uploadUrl", None)))


\* `now` is the value time.time() returns during the call.
start_recording(timestamp, device_id, now) ==
    CommandMessage(Member(CommandType.START_RECORDING),
                   Or(timestamp, now), device_id, None, None)

stop_recording(device_id, now) ==
    CommandMessage(Member(CommandType.STOP_RECORDING), now, device_id, None, None)

device_status(device_id, now) ==
    CommandMessage(Member(CommandType.DEVICE_STATUS), now, device_id, None, None)

get_video(file_name, device_id, now) ==
    CommandMessage(Member(CommandType.GET_VIDEO), now, device_id, file_name, None)

heartbeat(device_id, now) ==
    CommandMessage(Member(CommandType.HEARTBEAT), now, device_id, None, None)

list_files(device_id, now) ==
    CommandMessage(Member(CommandType.LIST_FILES), now, device_id, None, None)

\* upload_to_cloud as it would be with its two string arguments exchanged.
upload_to_cloud_Swapped(file_name, upload_url, device_id, now) ==
    CommandMessage(Member(CommandType.UPLOAD_TO_CLOUD), now, device_id,
                   upload_url, file_name)

upload_to_cloud(file_name, upload_url, device_id, now) ==
    CommandMessage(Member(CommandType.UPLOAD_TO_CLOUD), now, device_id,
                   file_name, upload_url)

(***************************************************************************)
(* commands.py: UploadItem and FileMetadata                                *)
(***************************************************************************)
UploadItem(fileName, fileSize, bytesUploaded, uploadProgress, uploadSpeed, status, uploadUrl, error) ==
    [class |-> "UploadItem", fileName |-> fileName, fileSize |-> fileSize,
     bytesUploaded |-> bytesUploaded, uploadProgress |-> uploadProgress,
     uploadSpeed |-> uploadSpeed, status |-> status, uploadUrl |-> uploadUrl,
     error |-> error]

UploadItemRequired ==
    <<"fileName", "fileSize", "bytesUploaded", "uploadProgress", "uploadSpeed",
      "status", "uploadUrl">>

\* Whether every key of the sequence `keys` is in the dict: data[k] raises
\* KeyError for the first one that is not.
HasKeys(data, keys) == \A i \in DOMAIN keys : keys[i] \in DOMAIN data.v

UploadItem_from_dict(data) ==
    IF ~HasKeys(data, UploadItemRequired) THEN Raise("KeyError")
    ELSE Return(UploadItem(
             data.v["fileName"], data.v["fileSize"], data.v["bytesUploaded"],
             data.v["uploadProgress"], data.v["uploadSpeed"], data.v["status"],
             data.v["uploadUrl"], dict_get(data, "error", None)))

FileMetadata(fileName, fileSize, creationDate, modificationDate) ==
    [class |-> "FileMetadata", fileName |-> fileName, fileSize |-> fileSize,
     creationDate |-> creationDate, modificationDate |-> modificationDate]

FileMetadataRequired ==
    <<"fileName", "fileSize", "creationDate", "modificationDate">>

FileMetadata_from_dict(data) ==
    IF ~HasKeys(data, FileMetadataRequired) THEN Raise("KeyError")
    ELSE Return(FileMetadata(
             data.v["fileName"], data.v["fileSize"], data.v["creationDate"],
             data.v["modificationDate"]))

\* [f(item) for item in items]: the list of results, or the first exception.
AllOk(rs) == \A i \in DOMAIN rs : rs[i].ok
FirstError(rs) ==
    rs[CHOOSE i \in DOMAIN rs : ~rs[i].ok /\ \A k \in 1..(i - 1) : rs[k].ok]
Values(rs) == PyList([i \in DOMAIN rs |-> rs[i].value])

(***************************************************************************)
(* commands.py: StatusResponse                                             *)
(***************************************************************************)
StatusResponse(deviceId, status, timestamp, batteryLevel, uploadQueue, failedUploadQueue) ==
    [class |-> "StatusResponse", deviceId |-> deviceId, status |-> status,
     timestamp |-> timestamp, batteryLevel |-> batteryLevel,
     uploadQueue |-> uploadQueue, failedUploadQueue |-> failedUploadQueue]

\* from_json as it would be with the two queues read from each other's key.
StatusResponse_from_json_Swapped(json_str) ==
    LET data == json_loads(json_str)
        upload_queue ==
            [i \in DOMAIN dict_get(data, "failedUploadQueue", PyList(<<>>)).v |->
                UploadItem_from_dict(dict_get(data, "failedUploadQueue", PyList(<<>>)).v[i])]
        failed_upload_queue ==
            [i \in DOMAIN dict_get(data, "uploadQueue", PyList(<<>>)).v |->
                UploadItem_from_dict(dict_get(data, "uploadQueue", PyList(<<>>)).v[i])]
    IN
    IF ~AllOk(upload_queue) THEN FirstError(upload_queue)
    ELSE IF ~AllOk(failed_upload_queue) THEN FirstError(failed_upload_queue)
    ELSE IF ~HasKeys(data, <<"deviceId", "status", "timestamp">>) THEN Raise("KeyError")
    ELSE Return(StatusResponse(
             data.v["deviceId"], data.v["status"], data.v["timestamp"],
             dict_get(data, "batteryLevel", None),
             Values(upload_queue), Values(failed_upload_queue)))

\* from_json as it would be with data['uploadQueue'] in place of
\* data.get('uploadQueue', []).
StatusResponse_from_json_QueueRequired(json_str) ==
    LET data == json_loads(json_str)
        upload_queue ==
            [i \in DOMAIN dict_get(data, "uploadQueue", PyList(<<>>)).v |->
                UploadItem_from_dict(dict_get(data, "uploadQueue", PyList(<<>>)).v[i])]
        failed_upload_queue ==
            [i \in DOMAIN dict_get(data, "failedUploadQueue", PyList(<<>>)).v |->
                UploadItem_from_dict(dict_get(data, "failedUploadQueue", PyList(<<>>)).v[i])]
    IN
    IF "uploadQueue" \notin DOMAIN data.v THEN Raise("KeyError")
    ELSE IF ~AllOk(upload_queue) THEN FirstError(upload_queue)
    ELSE IF ~AllOk(failed_upload_queue) THEN FirstError(failed_upload_queue)
    ELSE IF ~HasKeys(data, <<"deviceId", "status", "timestamp">>) THEN Raise("KeyError")
    ELSE Return(StatusResponse(
             data.v["deviceId"], data.v["status"], data.v["timestamp"],
             dict_get(data, "batteryLevel", None),
             Values(upload_queue), Values(failed_upload_queue)))

StatusResponse_from_json(json_str) ==
    LET data == json_loads(json_str)
        upload_queue ==
            [i \in DOMAIN dict_get(data, "uploadQueue", PyList(<<>>)).v |->
                UploadItem_from_dict(dict_get(data, "uploadQueue", PyList(<<>>)).v[i])]
        failed_upload_queue ==
            [i \in DOMAIN dict_get(data, "failedUploadQueue", PyList(<<>>)).v |->
                UploadItem_from_dict(dict_get(data, "failedUploadQueue", PyList(<<>>)).v[i])]
    IN
    IF ~AllOk(upload_queue) THEN FirstError(upload_queue)
    ELSE IF ~AllOk(failed_upload_queue) THEN FirstError(failed_upload_queue)
    ELSE IF ~HasKeys(data, <<"deviceId", "status", "timestamp">>) THEN Raise("KeyError")
    ELSE Return(StatusResponse(
             data.v["deviceId"], data.v["status"], data.v["timestamp"],
             dict_get(data, "batteryLevel", None),
             Values(upload_queue), Values(failed_upload_queue)))

StatusResponse_to_json(self) ==
    json_dumps(PyDict(
        [deviceId          |-> self.deviceId,
         status            |-> self.status,
         timestamp         |-> self.timestamp,
         batteryLevel      |-> self.batteryLevel,
         uploadQueue       |-> PyList([i \in DOMAIN self.uploadQueue.v |->
                                          asdict(self.uploadQueue.v[i])]),
         failedUploadQueue |-> PyList([i \in DOMAIN self.failedUploadQueue.v |->
                                          asdict(self.failedUploadQueue.v[i])])]))

(***************************************************************************)
(* commands.py: StopRecordingResponse, ErrorResponse, FileResponse         *)
(***************************************************************************)
StopRecordingResponse(deviceId, status, timestamp, fileName, fileSize) ==
    [class |-> "StopRecordingResponse", deviceId |-> deviceId, status |-> status,
     timestamp |-> timestamp, fileName |-> fileName, fileSize |-> fileSize]

StopRecordingResponse_from_json(json_str) ==
    LET data == json_loads(json_str) IN
    IF ~HasKeys(data, <<"deviceId", "status", "timestamp", "fileName", "fileSize">>)
    THEN Raise("KeyError")
    ELSE Return(StopRecordingResponse(
             data.v["deviceId"], data.v["status"], data.v["timestamp"],
             data.v["fileName"], data.v["fileSize"]))

StopRecordingResponse_to_json(self) == json_dumps(asdict(self))

ErrorResponse(deviceId, status, timestamp, message) ==
    [class |-> "ErrorResponse", deviceId |-> deviceId, status |-> status,
     timestamp |-> timestamp, message |-> message]

\* from_json as it would be if it looked the status up in DeviceStatus.
ErrorResponse_from_json_Strict(json_str) ==
    LET data == json_loads(json_str) IN
    IF ~HasKeys(data, <<"deviceId", "status", "timestamp", "message">>)
    THEN Raise("KeyError")
    ELSE IF data.v["status"].v \notin DeviceStatusValues
    THEN Raise("ValueError")
    ELSE Return(ErrorResponse(
             data.v["deviceId"], data.v["status"], data.v["timestamp"],
             data.v["message"]))

ErrorResponse_from_json(json_str) ==
    LET data == json_loads(json_str) IN
    IF ~HasKeys(data, <<"deviceId", "status", "timestamp", "message">>)
    THEN Raise("KeyError")
    ELSE Return(ErrorResponse(
             data.v["deviceId"], data.v["status"], data.v["timestamp"],
             data.v["message"]))

ErrorResponse_to_json(self) == json_dumps(asdict(self))

FileResponse(deviceId, fileName, fileSize, status) ==
    [class |-> "FileResponse", deviceId |-> deviceId, fileName |-> fileName,
     fileSize |-> fileSize, status |-> status]

FileResponse_from_json(json_str) ==
    LET data == json_loads(json_str) IN
    IF ~HasKeys(data, <<"deviceId", "fileName", "fileSize", "status">>)
    THEN Raise("KeyError")
    ELSE Return(FileResponse(
             data.v["deviceId"], data.v["fileName"], data.v["fileSize"],
             data.v["status"]))

FileResponse_to_json(self) == json_dumps(asdict(self))

(***************************************************************************)
(* commands.py: ListFilesResponse                                          *)
(***************************************************************************)
ListFilesResponse(deviceId, status, timestamp, files) ==
    [class |-> "ListFilesResponse", deviceId |-> deviceId, status |-> status,
     timestamp |-> timestamp, files |-> files]

ListFilesResponse_from_json(json_str) ==
    LET data == json_loads(json_str)
        files ==
            [i \in DOMAIN dict_get(data, "files", PyList(<<>>)).v |->
                FileMetadata_from_dict(dict_get(data, "files", PyList(<<>>)).v[i])]
    IN
    IF ~AllOk(files) THEN FirstError(files)
    ELSE IF ~HasKeys(data, <<"deviceId", "status", "timestamp">>) THEN Raise("KeyError")
    ELSE Return(ListFilesResponse(
             data.v["deviceId"], data.v["status"], data.v["timestamp"],
             Values(files)))

ListFilesResponse_to_json(self) ==
    json_dumps(PyDict(
        [deviceId  |-> self.deviceId,
         status    |-> self.status,
         timestamp |-> self.timestamp,
         files     |-> PyList([i \in DOMAIN self.files.v |-> asdict(self.files.v[i])])]))

(***************************************************************************)
(* commands.py: UploadStatus                                               *)
(***************************************************************************)
UploadStatus ==
    [QUEUED |-> <<"q", "u", "e", "u", "e", "d">>,
     UPLOADING |-> <<"u", "p", "l", "o", "a", "d", "i", "n", "g">>,
     COMPLETED |-> <<"c", "o", "m", "p", "l", "e", "t", "e", "d">>,
     FAILED |-> <<"f", "a", "i", "l", "e", "d">>]

UploadStatusValues == {UploadStatus[n] : n \in DOMAIN UploadStatus}

(***************************************************************************)
(* The values the callers and the peers supply.                            *)
(***************************************************************************)
SeqsUpTo(S, n) == UNION {[1..k -> S] : k \in 0..n}

Timestamps == {PyFloat(n) : n \in 0..MaxTimestamp}
\* A reading of time.time(): the clock is past the epoch.
Clock == {PyFloat(n) : n \in 1..MaxClock}
DeviceIds == {PyStr("controller"), PyStr("cam-1")}
FileNames == {PyStr("clip_001.mp4"), PyStr("clip_002.mp4")}
UploadUrls == {PyStr("https://bucket.s3/clip?sig=1")}
FileSizes == {PyInt(0), PyInt(524288)}
Messages == {PyStr("nothing is recording"), PyStr("")}
BatteryLevels == {None, PyFloat(87)}

\* Status strings a peer may send: members of DeviceStatus, a differently
\* cased one and one that is no member at all.
StatusSamples ==
    {PyStr(DeviceStatus.READY), PyStr(DeviceStatus.UPLOAD_FAILED),
     PyStr(<<"R", "E", "A", "D", "Y">>), PyStr(<<"p", "a", "u", "s", "e", "d">>)}

UploadItems ==
    {UploadItem(PyStr("clip_001.mp4"), PyInt(524288), PyInt(0), PyFloat(0),
                PyInt(0), PyStr(UploadStatus.QUEUED),
                PyStr("https://bucket.s3/clip?sig=1"), None),
     UploadItem(PyStr("clip_002.mp4"), PyInt(1024), PyInt(512), PyFloat(50),
                PyInt(4096), PyStr(<<"p", "a", "u", "s", "e", "d">>),
                PyStr("https://bucket.s3/clip?sig=2"), PyStr("HTTP 500"))}

FileMetadatas ==
    {FileMetadata(PyStr("clip_001.mp4"), PyInt(524288), PyFloat(1), PyFloat(2)),
     FileMetadata(PyStr("clip_002.mp4"), PyInt(0), PyFloat(2), PyFloat(2))}

\* JSON objects a peer may send as a command: any subset of the five keys,
\* the command a member's value, another string or null.
CommandStrings ==
    CommandTypeValues \cup {"start_recording", "Heartbeat", "REBOOT", ""}
CommandKeys == {"command", "timestamp", "deviceId", "fileName", "uploadUrl"}
CommandFieldValues(k) ==
    CASE k = "command" -> {JString(c) : c \in CommandStrings} \cup {JNull}
      [] k = "timestamp" -> {json_dumps(t) : t \in Timestamps}
      [] k = "deviceId" -> {JString("cam-1")}
      [] k = "fileName" -> {JNull, JString("clip_001.mp4")}
      [] k = "uploadUrl" -> {JNull, JString("https://bucket.s3/clip?sig=1")}
\* Marks a key the peer leaves out.
Absent == [json |-> "absent"]
CommandWires ==
    {LET all == [command |-> c, timestamp |-> t, deviceId |-> d,
                 fileName |-> f, uploadUrl |-> u]
     IN JObject([k \in {x \in CommandKeys : all[x] # Absent} |-> all[k]]) :
        c \in CommandFieldValues("command") \cup {Absent},
        t \in CommandFieldValues("timestamp") \cup {Absent},
        d \in CommandFieldValues("deviceId") \cup {Absent},
        f \in CommandFieldValues("fileName") \cup {Absent},
        u \in CommandFieldValues("uploadUrl") \cup {Absent}}

\* Strings handed to the classifier: every DeviceStatus value, each of its
\* contiguous substrings, the value with one or all letters in upper case,
\* with a character added at either end, and every string of at most
\* MaxJunkLen characters of JunkAlphabet.
upper_char(c) ==
    IF \E i \in DOMAIN LowerCase : LowerCase[i] = c
    THEN UpperCase[CHOOSE i \in DOMAIN LowerCase : LowerCase[i] = c]
    ELSE c
Substrings(s) == {SubSeq(s, i, k) : i \in 1..Len(s), k \in 1..Len(s)}
CaseVariants(s) ==
    {[i \in DOMAIN s |-> upper_char(s[i])]}
    \cup {[i \in DOMAIN s |-> IF i = p THEN upper_char(s[i]) ELSE s[i]] : p \in DOMAIN s}
JunkAlphabet == {"r", "E", "_", " "}
Padded(s) == UNION {{<<c>> \o s, s \o <<c>>} : c \in JunkAlphabet}
StatusInputs ==
    UNION {Substrings(s) \cup CaseVariants(s) \cup Padded(s) : s \in DeviceStatusValues}
    \cup SeqsUpTo(JunkAlphabet, MaxJunkLen)

(***************************************************************************)
(* The state: the last call and its arguments, the object the sender holds,*)
(* the JSON text on the wire, and what the last call returned or raised.   *)
(***************************************************************************)
Init ==
    /\ call = [op |-> "init"]
    /\ obj = None
    /\ wire = None
    /\ result = None

\* Nothing is in flight: the next call starts from scratch.
Idle == call.op = "init"

\* A caller constructs a dataclass instance directly.
NewCommandMessage ==
    /\ Idle
    /\ \E c \in CommandTypeValues, t \in Timestamps, d \in DeviceIds,
          f \in FileNames \cup {None}, u \in UploadUrls \cup {None} :
        /\ call' = [op |-> "new", cls |-> "CommandMessage"]
        /\ obj' = CommandMessage(Member(c), t, d, f, u)
        /\ result' = Return(obj')
    /\ UNCHANGED wire

NewStatusResponse ==
    /\ Idle
    /\ \E s \in StatusSamples, t \in Timestamps, b \in BatteryLevels,
          q \in SeqsUpTo(UploadItems, MaxQueue),
          fq \in SeqsUpTo(UploadItems, MaxQueue) :
        /\ call' = [op |-> "new", cls |-> "StatusResponse"]
        /\ obj' = StatusResponse(PyStr("cam-1"), s, t, b, PyList(q), PyList(fq))
        /\ result' = Return(obj')
    /\ UNCHANGED wire

NewStopRecordingResponse ==
    /\ Idle
    /\ \E s \in StatusSamples, t \in Timestamps, f \in FileNames, n \in FileSizes :
        /\ call' = [op |-> "new", cls |-> "StopRecordingResponse"]
        /\ obj' = StopRecordingResponse(PyStr("cam-1"), s, t, f, n)
        /\ result' = Return(obj')
    /\ UNCHANGED wire

NewErrorResponse ==
    /\ Idle
    /\ \E s \in StatusSamples, t \in Timestamps, m \in Messages :
        /\ call' = [op |-> "new", cls |-> "ErrorResponse"]
        /\ obj' = ErrorResponse(PyStr("cam-1"), s, t, m)
        /\ result' = Return(obj')
    /\ UNCHANGED wire

NewFileResponse ==
    /\ Idle
    /\ \E s \in StatusSamples, f \in FileNames, n \in FileSizes :
        /\ call' = [op |-> "new", cls |-> "FileResponse"]
        /\ obj' = FileResponse(PyStr("cam-1"), f, n, s)
        /\ result' = Return(obj')
    /\ UNCHANGED wire

NewListFilesResponse ==
    /\ Idle
    /\ \E s \in StatusSamples, t \in Timestamps,
          fs \in SeqsUpTo(FileMetadatas, MaxFiles) :
        /\ call' = [op |-> "new", cls |-> "ListFilesResponse"]
        /\ obj' = ListFilesResponse(PyStr("cam-1"), s, t, PyList(fs))
        /\ result' = Return(obj')
    /\ UNCHANGED wire

\* A caller uses one of the named builders; `now` is what time.time() reads
\* during the call.
StartRecording ==
    /\ Idle
    /\ \E t \in Timestamps \cup {None}, d \in DeviceIds, now \in Clock :
        /\ call' = [op |-> "start_recording", cls |-> "CommandMessage",
                    args |-> [timestamp |-> t, device_id |-> d, now |-> now]]
        /\ obj' = start_recording(t, d, now)
        /\ result' = Return(obj')
    /\ UNCHANGED wire

StopRecording ==
    /\ Idle
    /\ \E d \in DeviceIds, now \in Clock :
        /\ call' = [op |-> "stop_recording", cls |-> "CommandMessage",
                    args |-> [device_id |-> d, now |-> now]]
        /\ obj' = stop_recording(d, now)
        /\ result' = Return(obj')
    /\ UNCHANGED wire

DeviceStatusCommand ==
    /\ Idle
    /\ \E d \in DeviceIds, now \in Clock :
        /\ call' = [op |-> "device_status", cls |-> "CommandMessage",
                    args |-> [device_id |-> d, now |-> now]]
        /\ obj' = device_status(d, now)
        /\ result' = Return(obj')
    /\ UNCHANGED wire

GetVideo ==
    /\ Idle
    /\ \E f \in FileNames, d \in DeviceIds, now \in Clock :
        /\ call' = [op |-> "get_video", cls |-> "CommandMessage",
                    args |-> [file_name |-> f, device_id |-> d, now |-> now]]
        /\ obj' = get_video(f, d, now)
        /\ result' = Return(obj')
    /\ UNCHANGED wire

Heartbeat ==
    /\ Idle
    /\ \E d \in DeviceIds, now \in Clock :
        /\ call' = [op |-> "heartbeat", cls |-> "CommandMessage",
                    args |-> [device_id |-> d, now |-> now]]
        /\ obj' = heartbeat(d, now)
        /\ result' = Return(obj')
    /\ UNCHANGED wire

ListFiles ==
    /\ Idle
    /\ \E d \in DeviceIds, now \in Clock :
        /\ call' = [op |-> "list_files", cls |-> "CommandMessage",
                    args |-> [device_id |-> d, now |-> now]]
        /\ obj' = list_files(d, now)
        /\ result' = Return(obj')
    /\ UNCHANGED wire

UploadToCloud ==
    /\ Idle
    /\ \E f \in FileNames, u \in UploadUrls, d \in DeviceIds, now \in Clock :
        /\ call' = [op |-> "upload_to_cloud", cls |-> "CommandMessage",
                    args |-> [file_name |-> f, upload_url |-> u,
                              device_id |-> d, now |-> now]]
        /\ obj' = upload_to_cloud(f, u, d, now)
        /\ result' = Return(obj')
    /\ UNCHANGED wire

\* self.to_json() of the object's own class.
to_json(self) ==
    CASE self.class = "CommandMessage" -> CommandMessage_to_json(self)
      [] self.class = "StatusResponse" -> StatusResponse_to_json(self)
      [] self.class = "StopRecordingResponse" -> StopRecordingResponse_to_json(self)
      [] self.class = "ErrorResponse" -> ErrorResponse_to_json(self)
      [] self.class = "FileResponse" -> FileResponse_to_json(self)
      [] self.class = "ListFilesResponse" -> ListFilesResponse_to_json(self)

\* cls.from_json(json_str)
from_json(cls, json_str) ==
    CASE cls = "CommandMessage" -> CommandMessage_from_json(json_str)
      [] cls = "StatusResponse" -> StatusResponse_from_json(json_str)
      [] cls = "StopRecordingResponse" -> StopRecordingResponse_from_json(json_str)
      [] cls = "ErrorResponse" -> ErrorResponse_from_json(json_str)
      [] cls = "FileResponse" -> FileResponse_from_json(json_str)
      [] cls = "ListFilesResponse" -> ListFilesResponse_from_json(json_str)

\* The sender serialises the object it holds.
Encode ==
    /\ obj # None
    /\ wire = None
    /\ call' = [op |-> "to_json", cls |-> obj.class]
    /\ wire' = to_json(obj)
    /\ result' = Return(wire')
    /\ UNCHANGED obj

\* A peer sends a command it has written itself.
Receive ==
    /\ Idle
    /\ \E j \in CommandWires :
        /\ call' = [op |-> "receive", cls |-> "CommandMessage"]
        /\ wire' = j
    /\ UNCHANGED <<obj, result>>

\* A peer leaves a key out of the object it sends.
Omit ==
    /\ obj # None
    /\ wire # None
    /\ call.op \in {"to_json", "omit"}
    /\ Cardinality(DOMAIN to_json(obj).v) - Cardinality(DOMAIN wire.v) < MaxOmitted
    /\ \E k \in DOMAIN wire.v :
        /\ call' = [op |-> "omit", cls |-> call.cls, key |-> k]
        /\ wire' = JObject([x \in (DOMAIN wire.v) \ {k} |-> wire.v[x]])
        /\ result' = None
        /\ UNCHANGED obj

\* The keys each from_json reads with data.get and lets default to None or
\* to the empty list, with that default.
OptionalDefaults(cls) ==
    CASE cls = "CommandMessage" -> [fileName |-> None, uploadUrl |-> None]
      [] cls = "StatusResponse" ->
            [batteryLevel |-> None, uploadQueue |-> PyList(<<>>),
             failedUploadQueue |-> PyList(<<>>)]
      [] cls = "ListFilesResponse" -> [files |-> PyList(<<>>)]
      [] OTHER -> [k \in {} |-> None]

\* The keys of the upload queues in a JSON object.
QueueKeys == {"uploadQueue", "failedUploadQueue"}

\* A JSON object without the keys K and, with dropError, without the
\* 'error' key of the items of its upload queues.
Without(j, K, dropError) ==
    JObject([k \in (DOMAIN j.v) \ K |->
        IF dropError /\ k \in QueueKeys
        THEN JArray([i \in DOMAIN j.v[k].v |->
                 JObject([x \in (DOMAIN j.v[k].v[i].v) \ {"error"} |->
                              j.v[k].v[i].v[x]])])
        ELSE j.v[k]])

\* A peer that writes no entry for a value it does not have: it leaves out
\* optional keys, or the 'error' of its upload items.
OmitOptional ==
    /\ obj # None
    /\ wire # None
    /\ call.op = "to_json"
    /\ \E K \in SUBSET (DOMAIN OptionalDefaults(call.cls)), dropError \in BOOLEAN :
        /\ Without(wire, K, dropError) # wire
        /\ call' = [op |-> "omit_optional", cls |-> call.cls, keys |-> K,
                    error |-> dropError]
        /\ wire' = Without(wire, K, dropError)
        /\ result' = None
        /\ UNCHANGED obj

\* The receiver decodes the text with the class it expects.
Decode ==
    /\ wire # None
    /\ call.op \in {"to_json", "omit", "omit_optional", "receive"}
    /\ call' = [op |-> "from_json", cls |-> call.cls]
    /\ result' = from_json(call.cls, wire)
    /\ UNCHANGED <<obj, wire>>

\* A caller classifies a status string.
Classify ==
    /\ Idle
    /\ \E s \in StatusInputs :
        /\ call' = [op |-> "classify", status |-> s]
        /\ result' = [is_success |-> is_success(s), is_error |-> is_error(s)]
    /\ UNCHANGED <<obj, wire>>

\* The caller drops what it holds; the next call starts from scratch.
Finish ==
    /\ ~Idle
    /\ call' = [op |-> "init"]
    /\ obj' = None
    /\ wire' = None
    /\ result' = None

Next ==
    \/ NewCommandMessage
    \/ NewStatusResponse
    \/ NewStopRecordingResponse
    \/ NewErrorResponse
    \/ NewFileResponse
    \/ NewListFilesResponse
    \/ StartRecording
    \/ StopRecording
    \/ DeviceStatusCommand
    \/ GetVideo
    \/ Heartbeat
    \/ ListFiles
    \/ UploadToCloud
    \/ Encode
    \/ Receive
    \/ Omit
    \/ OmitOptional
    \/ Decode
    \/ Classify
    \/ Finish

Spec == Init /\ [][Next]_vars

(***************************************************************************)
(* Properties.                                                             *)
(***************************************************************************)
ResponseClasses ==
    {"StatusResponse", "StopRecordingResponse", "ErrorResponse", "FileResponse",
     "ListFilesResponse"}

\* The last call decoded, with class cls, the text the sender's to_json wrote.
RoundTripped(cls) ==
    /\ call.op = "from_json"
    /\ call.cls = cls
    /\ obj # None
    /\ wire = to_json(obj)

\* C1: decoding what to_json wrote for a CommandMessage gives the message
\* back, field by field, whatever the command, the timestamp, the deviceId
\* and whether fileName and uploadUrl are strings or None.
C1_CommandRoundTrip ==
    RoundTripped("CommandMessage") =>
        /\ result.ok
        /\ result.value.class = "CommandMessage"
        /\ \A f \in CommandKeys : result.value[f] = obj[f]

C1_Witness ==
    /\ RoundTripped("CommandMessage")
    /\ result.ok
    /\ obj.command = Member(CommandType.UPLOAD_TO_CLOUD)
    /\ obj.fileName = None
    /\ obj.uploadUrl # None
    /\ obj.timestamp = PyFloat(0)

\* C2: decoding what to_json wrote for a response gives the response back:
\* the queues and the file list with the same length, the same elements in
\* the same order, none moved between the two queues, and batteryLevel and
\* an item's error still None when they were None.
C2_ResponseRoundTrip ==
    \A cls \in ResponseClasses :
        RoundTripped(cls) =>
            /\ result = Return(obj)
            /\ cls = "StatusResponse" =>
                /\ Len(result.value.uploadQueue.v) = Len(obj.uploadQueue.v)
                /\ Len(result.value.failedUploadQueue.v) = Len(obj.failedUploadQueue.v)
                /\ \A i \in DOMAIN obj.uploadQueue.v :
                      result.value.uploadQueue.v[i] = obj.uploadQueue.v[i]
                /\ \A i \in DOMAIN obj.failedUploadQueue.v :
                      result.value.failedUploadQueue.v[i] = obj.failedUploadQueue.v[i]
                /\ (obj.batteryLevel = None) = (result.value.batteryLevel = None)
            /\ cls = "ListFilesResponse" =>
                /\ Len(result.value.files.v) = Len(obj.files.v)
                /\ \A i \in DOMAIN obj.files.v :
                      result.value.files.v[i] = obj.files.v[i]

C2_Witness ==
    /\ RoundTripped("StatusResponse")
    /\ result.ok
    /\ obj.batteryLevel = None
    /\ Len(obj.uploadQueue.v) = 2
    /\ obj.uploadQueue.v[1] # obj.uploadQueue.v[2]
    /\ obj.uploadQueue.v[1].error = None
    /\ Len(obj.failedUploadQueue.v) = 1
    /\ obj.failedUploadQueue.v[1] = obj.uploadQueue.v[2]

\* The last call was CommandMessage.from_json.
DecodedCommand == call.op = "from_json" /\ call.cls = "CommandMessage"

\* C3: CommandMessage.from_json raises whenever the 'command' string is not
\* exactly the value of a CommandType member, and a message it returns
\* always carries a member.
C3_UnknownCommandRejected ==
    DecodedCommand =>
        /\ ("command" \in DOMAIN wire.v
              /\ wire.v["command"].json = "string"
              /\ wire.v["command"].v \notin CommandTypeValues) => ~result.ok
        /\ result.ok => /\ result.value.command.type = "CommandType"
                        /\ result.value.command.v \in CommandTypeValues

C3_Witness ==
    /\ DecodedCommand
    /\ "command" \in DOMAIN wire.v
    /\ wire.v["command"] = JString("start_recording")
    /\ "timestamp" \in DOMAIN wire.v
    /\ result = Raise("ValueError")

\* C4: CommandMessage.from_json raises whenever 'command' or 'timestamp' is
\* absent; an absent 'deviceId' is not an error, the message then has
\* deviceId "controller".
C4_MissingRequiredRejected ==
    DecodedCommand =>
        /\ (\E k \in {"command", "timestamp"} : k \notin DOMAIN wire.v) => ~result.ok
        /\ (result.ok /\ "deviceId" \notin DOMAIN wire.v) =>
              result.value.deviceId = PyStr("controller")

C4_Witness ==
    /\ DecodedCommand
    /\ DOMAIN wire.v = CommandKeys \ {"timestamp"}
    /\ wire.v["command"] = JString(CommandType.HEARTBEAT)
    /\ result = Raise("KeyError")

\* C4 as claimed: a JSON object lacking command, timestamp or deviceId is
\* rejected.
C4_Original ==
    DecodedCommand =>
        ((\E k \in {"command", "timestamp", "deviceId"} : k \notin DOMAIN wire.v)
            => ~result.ok)

\* The required-field rule of a CommandMessage.
RequiredFieldsPresent(m) ==
    /\ m.command.v \in {CommandType.GET_VIDEO, CommandType.UPLOAD_TO_CLOUD}
          => m.fileName # None
    /\ m.command.v = CommandType.UPLOAD_TO_CLOUD => m.uploadUrl # None

\* C5: every CommandMessage that exists, constructed or decoded, has
\* fileName when its command is GET_VIDEO or UPLOAD_TO_CLOUD and uploadUrl
\* when it is UPLOAD_TO_CLOUD.
C5_RequiredFieldInvariant ==
    /\ (obj # None /\ obj.class = "CommandMessage") => RequiredFieldsPresent(obj)
    /\ (DecodedCommand /\ result.ok) => RequiredFieldsPresent(result.value)

\* The last call classified a status string.
Classified == call.op = "classify"

\* C6: is_success and is_error are never both true of a string, and exactly
\* one of them is true of each of the 13 DeviceStatus values.
C6_SuccessErrorPartition ==
    /\ Cardinality(DeviceStatusValues) = 13
    /\ Classified =>
        /\ ~(result.is_success /\ result.is_error)
        /\ call.status \in DeviceStatusValues =>
              (result.is_success # result.is_error)

C6_Witness ==
    /\ Classified
    /\ call.status = DeviceStatus.UPLOAD_FAILED
    /\ result.is_error
    /\ ~result.is_success

\* C7: the classification of a string is that of its lower-case form, and a
\* string whose lower-case form is no DeviceStatus value is neither success
\* nor error.
C7_CaseInsensitiveClosedSet ==
    Classified =>
        /\ result.is_success = is_success(lower(call.status))
        /\ result.is_error = is_error(lower(call.status))
        /\ lower(call.status) \notin DeviceStatusValues =>
              (~result.is_success /\ ~result.is_error)

C7_Witness ==
    /\ Classified
    /\ call.status # lower(call.status)
    /\ lower(call.status) = DeviceStatus.RECORDING_STOPPED
    /\ result.is_success

\* The last call was from_json of a response class.
DecodedResponse == call.op = "from_json" /\ call.cls \in ResponseClasses

\* The items of the list under `key` of a JSON object, none if it is absent.
WireItems(key) == IF key \in DOMAIN wire.v THEN wire.v[key].v ELSE <<>>

\* C8: the response decoders do not validate the status: from_json returns
\* the 'status' string unchanged whether or not it is the value of a
\* DeviceStatus member, UploadItem.from_dict does the same with an item's
\* 'status', decoding what to_json wrote succeeds whatever the status, and
\* only an absent 'status' makes the decoder raise.
C8_StatusNotValidated ==
    DecodedResponse =>
        /\ "status" \notin DOMAIN wire.v => ~result.ok
        /\ (obj # None /\ wire = to_json(obj)) => result.ok
        /\ result.ok =>
            /\ result.value.status = json_loads(wire.v["status"])
            /\ call.cls = "StatusResponse" =>
                /\ \A i \in DOMAIN WireItems("uploadQueue") :
                      result.value.uploadQueue.v[i].status =
                          json_loads(WireItems("uploadQueue")[i].v["status"])
                /\ \A i \in DOMAIN WireItems("failedUploadQueue") :
                      result.value.failedUploadQueue.v[i].status =
                          json_loads(WireItems("failedUploadQueue")[i].v["status"])

C8_Witness ==
    /\ DecodedResponse
    /\ call.cls = "StatusResponse"
    /\ result.ok
    /\ result.value.status.v \notin DeviceStatusValues
    /\ Len(result.value.uploadQueue.v) > 0
    /\ result.value.uploadQueue.v[1].status.v \notin UploadStatusValues

\* C8 as claimed: a decoded response carries the value of a DeviceStatus
\* member, and a decoded UploadItem one of queued, uploading, completed,
\* failed.
C8_Original ==
    (DecodedResponse /\ result.ok) =>
        /\ result.value.status.v \in DeviceStatusValues
        /\ call.cls = "StatusResponse" =>
            /\ \A i \in DOMAIN result.value.uploadQueue.v :
                  result.value.uploadQueue.v[i].status.v \in UploadStatusValues
            /\ \A i \in DOMAIN result.value.failedUploadQueue.v :
                  result.value.failedUploadQueue.v[i].status.v \in UploadStatusValues

\* C9: a DeviceStatus value is in SUCCESS_STATUSES exactly when is_success
\* is true of it, and is_error is true of no member of SUCCESS_STATUSES.
C9_SuccessStatusesAgree ==
    Classified =>
        /\ call.status \in DeviceStatusValues =>
              ((call.status \in SUCCESS_STATUSES) = result.is_success)
        /\ call.status \in SUCCESS_STATUSES => ~result.is_error

\* C10: start_recording(timestamp=t) returns a START_RECORDING message with
\* timestamp t for every t other than None, 0 included, and with the clock's
\* reading when t is None.
C10_StartRecordingTimestamp ==
    call.op = "start_recording" =>
        /\ obj.command = Member(CommandType.START_RECORDING)
        /\ call.args.timestamp # None => obj.timestamp = call.args.timestamp
        /\ call.args.timestamp = None => obj.timestamp = call.args.now


\* The command each named builder is for.
BuilderCommand ==
    [start_recording |-> CommandType.START_RECORDING,
     stop_recording  |-> CommandType.STOP_RECORDING,
     device_status   |-> CommandType.DEVICE_STATUS,
     get_video       |-> CommandType.GET_VIDEO,
     heartbeat       |-> CommandType.HEARTBEAT,
     list_files      |-> CommandType.LIST_FILES,
     upload_to_cloud |-> CommandType.UPLOAD_TO_CLOUD]

\* The last call was one of the named builders.
CalledBuilder == call.op \in DOMAIN BuilderCommand

\* C11: each named builder returns a CommandMessage of its own command type
\* with the caller's device_id; get_video(f) has fileName f and no uploadUrl,
\* upload_to_cloud(f, u) has fileName f and uploadUrl u, the other builders
\* have neither; so every builder's message has its required fields.
C11_BuildersOwnCommand ==
    CalledBuilder =>
        /\ result = Return(obj)
        /\ obj.class = "CommandMessage"
        /\ obj.command = Member(BuilderCommand[call.op])
        /\ obj.deviceId = call.args.device_id
        /\ obj.fileName = IF call.op \in {"get_video", "upload_to_cloud"}
                          THEN call.args.file_name ELSE None
        /\ obj.uploadUrl = IF call.op = "upload_to_cloud"
                           THEN call.args.upload_url ELSE None
        /\ RequiredFieldsPresent(obj)

C11_Witness ==
    /\ CalledBuilder
    /\ call.op = "upload_to_cloud"
    /\ call.args.device_id = PyStr("cam-1")
    /\ obj.command = Member(CommandType.UPLOAD_TO_CLOUD)
    /\ obj.fileName = PyStr("clip_002.mp4")
    /\ obj.uploadUrl = PyStr("https://bucket.s3/clip?sig=1")


\* The JSON object with every absent optional key written out as null or as
\* the empty list, and every absent 'error' of an upload item as null.
Explicit(cls, j) ==
    LET defaults == OptionalDefaults(cls) IN
    JObject([k \in (DOMAIN j.v) \cup (DOMAIN defaults) |->
        IF k \notin DOMAIN j.v THEN json_dumps(defaults[k])
        ELSE IF cls = "StatusResponse" /\ k \in QueueKeys
        THEN JArray([i \in DOMAIN j.v[k].v |->
                 JObject([x \in (DOMAIN j.v[k].v[i].v) \cup {"error"} |->
                     IF x \in DOMAIN j.v[k].v[i].v THEN j.v[k].v[i].v[x]
                     ELSE JNull])])
        ELSE j.v[k]])

\* C12: from_json gives an absent optional key its fixed default (fileName,
\* uploadUrl, batteryLevel and an item's error None; uploadQueue,
\* failedUploadQueue and files the empty list), does not fail when only
\* such keys are absent, and returns what it returns for the same JSON with
\* those keys written as null or as the empty list.
C12_AbsentOptionalDefaults ==
    call.op = "from_json" =>
        /\ result = from_json(call.cls, Explicit(call.cls, wire))
        /\ (obj # None
              /\ (DOMAIN to_json(obj).v) \ (DOMAIN wire.v)
                    \subseteq DOMAIN OptionalDefaults(call.cls)) => result.ok
        /\ result.ok =>
            /\ \A k \in (DOMAIN OptionalDefaults(call.cls)) \ (DOMAIN wire.v) :
                  result.value[k] = OptionalDefaults(call.cls)[k]
            /\ call.cls = "StatusResponse" =>
                  \A k \in QueueKeys \cap (DOMAIN wire.v) :
                      \A i \in DOMAIN wire.v[k].v :
                          "error" \notin DOMAIN wire.v[k].v[i].v =>
                              result.value[k].v[i].error = None

C12_Witness ==
    /\ call.op = "from_json"
    /\ call.cls = "StatusResponse"
    /\ obj # None
    /\ obj.batteryLevel # None
    /\ Len(obj.uploadQueue.v) = 2
    /\ Len(obj.failedUploadQueue.v) = 2
    /\ obj.failedUploadQueue.v[2].error # None
    /\ DOMAIN wire.v = {"deviceId", "status", "timestamp", "failedUploadQueue"}
    /\ "error" \notin DOMAIN wire.v["failedUploadQueue"].v[2].v
    /\ result.ok
    /\ result.value.batteryLevel = None
    /\ result.value.uploadQueue = PyList(<<>>)
    /\ result.value.failedUploadQueue.v[2].error = None

============================================================================
